---- MODULE Spec2Model ----
(***************************************************************************)
(* Model of scripts/build_blog.js: the blog build (main), the slug,        *)
(* title and excerpt extraction helpers, the listing generator and the     *)
(* index patcher (updateIndex).                                            *)
(*                                                                         *)
(* A JavaScript string is a sequence of one-character strings.  A          *)
(* character outside ASCII is written by its code point: "u2026" is the    *)
(* ellipsis, "u2192" the arrow, "u00e9" e with acute accent, "u0301" the   *)
(* combining acute accent, "u201c"/"u201d" the curly double quotes.        *)
(* String indices are 0-based as in the source, with -1 for "not found".   *)
(***************************************************************************)
EXTENDS Integers, Sequences, FiniteSets, TLC

(***************************************************************************)
(* JavaScript string primitives                                            *)
(***************************************************************************)

Min(a, b) == IF a < b THEN a ELSE b

\* String.prototype.slice(from, to) for 0 <= from: the characters at the
\* 0-based indices from .. to-1.
slice(s, from, to) == SubSeq(s, from + 1, Min(to, Len(s)))

\* slice(from) to the end of the string.
sliceFrom(s, from) == SubSeq(s, from + 1, Len(s))

\* Whether m occurs in s at the 0-based index i.
matchAt(s, m, i) == i >= 0 /\ i + Len(m) <= Len(s) /\ \A k \in 1..Len(m) : s[i + k] = m[k]

\* String.prototype.indexOf(m, from): the least index >= from where m
\* occurs, -1 when there is none.
indexOfFrom(s, m, from) ==
    LET hits == {i \in from..(Len(s) - Len(m)) : matchAt(s, m, i)}
    IN  IF hits = {} THEN -1 ELSE CHOOSE i \in hits : \A j \in hits : i <= j

indexOf(s, m) == indexOfFrom(s, m, 0)

\* String.prototype.lastIndexOf(m, from): the greatest index <= from where
\* m occurs, -1 when there is none.
lastIndexOf(s, m, from) ==
    LET hits == {i \in 0..Min(from, Len(s) - Len(m)) : matchAt(s, m, i)}
    IN  IF hits = {} THEN -1 ELSE CHOOSE i \in hits : \A j \in hits : i >= j

LowerLetters ==
    <<"a","b","c","d","e","f","g","h","i","j","k","l","m",
      "n","o","p","q","r","s","t","u","v","w","x","y","z">>

UpperLetters ==
    <<"A","B","C","D","E","F","G","H","I","J","K","L","M",
      "N","O","P","Q","R","S","T","U","V","W","X","Y","Z">>

Digits == <<"0","1","2","3","4","5","6","7","8","9">>

Range(s) == {s[i] : i \in 1..Len(s)}

\* The character class \s of a JavaScript regular expression, on the
\* characters of the model.
IsSpace(c) == c \in {" ", "\n", "\t"}

\* The character class \w.
IsWordChar(c) == c \in Range(LowerLetters) \cup Range(UpperLetters) \cup Range(Digits) \cup {"_"}

toLowerChar(c) ==
    IF c \in Range(UpperLetters)
    THEN LowerLetters[CHOOSE i \in 1..26 : UpperLetters[i] = c]
    ELSE c

toUpperChar(c) ==
    IF c \in Range(LowerLetters)
    THEN UpperLetters[CHOOSE i \in 1..26 : LowerLetters[i] = c]
    ELSE c

toLowerCase(s) == [i \in 1..Len(s) |-> toLowerChar(s[i])]

\* indexOfFrom under the i flag of a regular expression; m is in lower case.
indexOfFromCI(s, m, from) == indexOfFrom(toLowerCase(s), m, from)

RECURSIVE replaceAllFrom(_, _, _, _)
\* s.replace(/m/gi, rep) for a literal m in lower case, scanning from i.
replaceAllFrom(s, m, rep, i) ==
    LET k == indexOfFromCI(s, m, i)
    IN  IF k = -1 THEN sliceFrom(s, i)
        ELSE slice(s, i, k) \o rep \o replaceAllFrom(s, m, rep, k + Len(m))

replaceAllCI(s, m, rep) == replaceAllFrom(s, m, rep, 0)

RECURSIVE replaceChars(_, _)
\* s.replace(/c/g, rep[c]) for single characters: every character in the
\* domain of rep becomes the string rep gives it.
replaceChars(s, rep) ==
    IF s = <<>> THEN <<>>
    ELSE (IF Head(s) \in DOMAIN rep THEN rep[Head(s)] ELSE <<Head(s)>>)
         \o replaceChars(Tail(s), rep)

\* String.prototype.trim().
trim(s) ==
    LET keep == {i \in 1..Len(s) : ~IsSpace(s[i])}
    IN  IF keep = {} THEN <<>>
        ELSE SubSeq(s, CHOOSE i \in keep : \A j \in keep : i <= j,
                       CHOOSE i \in keep : \A j \in keep : i >= j)

RECURSIVE toDecimal(_)
\* The decimal digits of a non-negative integer, as a template literal
\* writes it.
toDecimal(n) ==
    IF n < 10 THEN <<Digits[n + 1]>>
    ELSE toDecimal(n \div 10) \o <<Digits[(n % 10) + 1]>>

(***************************************************************************)
(* slugify and ensureUniqueSlug                                            *)
(***************************************************************************)

\* String.prototype.normalize('NFKD') on one character: an accented letter
\* decomposes into its base letter and a combining mark.
nfkdChar(c) ==
    CASE c = "u00e9" -> <<"e", "u0301">>
      [] c = "u00c9" -> <<"E", "u0301">>
      [] OTHER -> <<c>>

RECURSIVE normalizeNFKD(_)
normalizeNFKD(s) ==
    IF s = <<>> THEN <<>> ELSE nfkdChar(Head(s)) \o normalizeNFKD(Tail(s))

\* The range \u0300-\u036f of combining marks, on the characters of the model.
IsCombiningMark(c) == c \in {"u0301"}

IsSlugChar(c) == c \in Range(LowerLetters) \cup Range(Digits)

RECURSIVE hyphenateRuns(_)
\* replace(/[^a-z0-9]+/g, '-'): every maximal run of other characters
\* becomes one hyphen.
hyphenateRuns(s) ==
    IF s = <<>> THEN <<>>
    ELSE IF IsSlugChar(Head(s)) THEN <<Head(s)>> \o hyphenateRuns(Tail(s))
    ELSE IF Len(s) > 1 /\ ~IsSlugChar(s[2]) THEN hyphenateRuns(Tail(s))
    ELSE <<"-">> \o hyphenateRuns(Tail(s))

\* replace(/(^-|-$)/g, ''): one leading and one trailing hyphen go.
stripEdgeHyphens(s) ==
    LET a == IF s # <<>> /\ Head(s) = "-" THEN Tail(s) ELSE s
    IN  IF a # <<>> /\ a[Len(a)] = "-" THEN SubSeq(a, 1, Len(a) - 1) ELSE a

RECURSIVE collapseHyphens(_)
\* replace(/-{2,}/g, '-').
collapseHyphens(s) ==
    IF s = <<>> THEN <<>>
    ELSE IF Head(s) = "-" /\ Len(s) > 1 /\ s[2] = "-" THEN collapseHyphens(Tail(s))
    ELSE <<Head(s)>> \o collapseHyphens(Tail(s))

slugify(input) ==
    LET normalized == toLowerCase(SelectSeq(normalizeNFKD(input), LAMBDA c : ~IsCombiningMark(c)))
        slug == collapseHyphens(stripEdgeHyphens(hyphenateRuns(normalized)))
    IN  IF slug = <<>> THEN <<"p","o","s","t">> ELSE slug

\* ensureUniqueSlug(slug, map): the slug returned and the map as the call
\* leaves it.  The map is a function from the slugs seen to their counts.
ensureUniqueSlug(slug, map) ==
    IF slug \notin DOMAIN map
    THEN [slug |-> slug, map |-> [s \in DOMAIN map \cup {slug} |-> IF s = slug THEN 1 ELSE map[s]]]
    ELSE LET count == map[slug]
         IN  [slug |-> slug \o <<"-">> \o toDecimal(count),
              map |-> [map EXCEPT ![slug] = count + 1]]

(***************************************************************************)
(* Text helpers of the metadata extraction                                 *)
(***************************************************************************)

\* replace(/\s+/g, ' '): every maximal run of whitespace becomes one space.
collapseSpaces(s) ==
    LET lastOfRun(k) == ~IsSpace(s[k]) \/ k = Len(s) \/ ~IsSpace(s[k + 1])
        kept == SelectSeq([k \in 1..Len(s) |-> k], lastOfRun)
    IN  [k \in 1..Len(kept) |-> IF IsSpace(s[kept[k]]) THEN " " ELSE s[kept[k]]]

cleanupWhitespace(text) == trim(collapseSpaces(text))

RECURSIVE stripHtmlFrom(_, _)
\* replace(/<[^>]+>/g, '') scanning from index i: a "<", at least one
\* character other than ">", and the next ">" are removed.
stripHtmlFrom(text, i) ==
    IF i >= Len(text) THEN <<>>
    ELSE LET close == indexOfFrom(text, <<">">>, i + 1)
         IN  IF text[i + 1] = "<" /\ close >= i + 2
             THEN stripHtmlFrom(text, close + 1)
             ELSE <<text[i + 1]>> \o stripHtmlFrom(text, i + 1)

stripHtml(text) == stripHtmlFrom(text, 0)

\* The replacements of decodeEntities in source order, each a pattern
\* (matched under the i flag) and its replacement.  An alternation a|b with
\* one replacement is two successive entries: neither replacement can
\* create or destroy a match of the other.
Entities ==
    <<
       <<<<"&","n","b","s","p",";">>, <<" ">>>>,
       <<<<"&","a","m","p",";">>, <<"&">>>>,
       <<<<"&","l","t",";">>, <<"<">>>>,
       <<<<"&","g","t",";">>, <<">">>>>,
       <<<<"&","q","u","o","t",";">>, <<"\"">>>>,
       <<<<"&","#","3","9",";">>, <<"'">>>>,
       <<<<"&","r","s","q","u","o",";">>, <<"u2019">>>>,
       <<<<"&","#","8","2","1","7",";">>, <<"u2019">>>>,
       <<<<"&","l","s","q","u","o",";">>, <<"u2018">>>>,
       <<<<"&","#","8","2","1","6",";">>, <<"u2018">>>>,
       <<<<"&","l","d","q","u","o",";">>, <<"u201c">>>>,
       <<<<"&","#","8","2","2","0",";">>, <<"u201c">>>>,
       <<<<"&","r","d","q","u","o",";">>, <<"u201d">>>>,
       <<<<"&","#","8","2","2","1",";">>, <<"u201d">>>>,
       <<<<"&","n","d","a","s","h",";">>, <<"u2013">>>>,
       <<<<"&","#","8","2","1","1",";">>, <<"u2013">>>>,
       <<<<"&","m","d","a","s","h",";">>, <<"u2014">>>>,
       <<<<"&","#","8","2","1","2",";">>, <<"u2014">>>>,
       <<<<"&","h","e","l","l","i","p",";">>, <<"u2026">>>>,
       <<<<"&","#","8","2","3","0",";">>, <<"u2026">>>>
    >>

RECURSIVE decodeFrom(_, _)
\* The replacements from the n-th on, applied to text one after the other;
\* an empty text has nothing left to replace.
decodeFrom(text, n) ==
    IF n > Len(Entities) THEN text
    ELSE LET replaced == replaceAllCI(text, Entities[n][1], Entities[n][2])
         IN  IF Len(replaced) = 0 THEN replaced ELSE decodeFrom(replaced, n + 1)

decodeEntities(text) == decodeFrom(text, 1)

\* The maximal length of an excerpt: the default of shortenExcerpt's
\* maxLength parameter.
DefaultMaxLength == 200

Ellipsis == "u2026"

\* replace(/\s+\S*$/, ''): the last run of whitespace and everything after
\* it are removed; a string without whitespace is left as it is.
dropLastWord(s) ==
    LET spaces == {i \in 1..Len(s) : IsSpace(s[i])}
    IN  IF spaces = {} THEN s
        ELSE LET last == CHOOSE i \in spaces : \A j \in spaces : i >= j
                 first == CHOOSE i \in 1..last :
                              /\ \A j \in i..last : IsSpace(s[j])
                              /\ \A k \in 1..(i - 1) : \E j \in k..last : ~IsSpace(s[j])
             IN  SubSeq(s, 1, first - 1)

RECURSIVE stripTrailing(_, _)
\* replace(/[class]+$/, '') for a class given as a set of characters.
stripTrailing(s, class) ==
    IF s # <<>> /\ s[Len(s)] \in class
    THEN stripTrailing(SubSeq(s, 1, Len(s) - 1), class)
    ELSE s

TrailingPunctuation == {" ", "\n", "\t", ",", ";", ":"}

TrailingQuotes == {"\"", "'", "u201c", "u201d"}

\* shortenExcerpt cutting at maxLength instead of maxLength - 1.
shortenExcerptCutAtMax(text, maxLength) ==
    IF Len(text) <= maxLength THEN text
    ELSE LET t1 == slice(text, 0, maxLength)
             t2 == dropLastWord(t1)
             t3 == stripTrailing(t2, TrailingPunctuation)
             t4 == stripTrailing(t3, TrailingQuotes)
         IN  t4 \o <<Ellipsis>>

shortenExcerpt(text, maxLength) ==
    IF Len(text) <= maxLength THEN text
    ELSE LET t1 == slice(text, 0, maxLength - 1)
             t2 == dropLastWord(t1)
             t3 == stripTrailing(t2, TrailingPunctuation)
             t4 == stripTrailing(t3, TrailingQuotes)
         IN  t4 \o <<Ellipsis>>

RECURSIVE titleCaseFrom(_, _)
\* replace(/\w+/g, word => upper-cased first letter + rest): inWord says
\* whether the previous character belongs to the current word.
titleCaseFrom(text, inWord) ==
    IF text = <<>> THEN <<>>
    ELSE IF ~IsWordChar(Head(text)) THEN <<Head(text)>> \o titleCaseFrom(Tail(text), FALSE)
    ELSE (IF inWord THEN <<Head(text)>> ELSE <<toUpperChar(Head(text))>>)
         \o titleCaseFrom(Tail(text), TRUE)

toTitleCase(text) == titleCaseFrom(text, FALSE)

\* The five replacements with the ampersand last: the ampersands of the
\* references written before it are escaped again.
escapeHtmlAmpersandLast(text) ==
    LET a == replaceChars(text, "<" :> <<"&","l","t",";">>)
        b == replaceChars(a, ">" :> <<"&","g","t",";">>)
        c == replaceChars(b, "\"" :> <<"&","q","u","o","t",";">>)
        d == replaceChars(c, "'" :> <<"&","#","3","9",";">>)
    IN  replaceChars(d, "&" :> <<"&","a","m","p",";">>)

\* escapeHtml: five successive single-character replacements, the
\* ampersand first.
escapeHtml(text) ==
    LET a == replaceChars(text, "&" :> <<"&","a","m","p",";">>)
        b == replaceChars(a, "<" :> <<"&","l","t",";">>)
        c == replaceChars(b, ">" :> <<"&","g","t",";">>)
        d == replaceChars(c, "\"" :> <<"&","q","u","o","t",";">>)
    IN  replaceChars(d, "'" :> <<"&","#","3","9",";">>)

(***************************************************************************)
(* Pattern-based extraction                                                *)
(***************************************************************************)

\* html.match(/<TAG[^>]*>([\s\S]*?)<\/TAG>/i) for a tag name in lower case:
\* whether there is a match, and its group 1.  The match starts at the
\* least index p of "<TAG" for which the first ">" after it is followed
\* somewhere by "</TAG>"; the group runs to the first such "</TAG>".
matchElement(html, tag) ==
    LET lower == toLowerCase(html)
        open == <<"<">> \o tag
        close == <<"<", "/">> \o tag \o <<">">>
        gt(p) == indexOfFrom(html, <<">">>, p + Len(open))
        end(p) == indexOfFrom(lower, close, gt(p) + 1)
        starts == {p \in 0..(Len(html) - 1) :
                      matchAt(lower, open, p) /\ gt(p) # -1 /\ end(p) # -1}
    IN  IF starts = {} THEN [found |-> FALSE, group |-> <<>>]
        ELSE LET p == CHOOSE i \in starts : \A j \in starts : i <= j
             IN  [found |-> TRUE, group |-> slice(html, gt(p) + 1, end(p))]

extractTitle(html) ==
    LET titleMatch == matchElement(html, <<"t","i","t","l","e">>)
        headingMatch == matchElement(html, <<"h","1">>)
    IN  IF titleMatch.found
        THEN cleanupWhitespace(decodeEntities(stripHtml(titleMatch.group)))
        ELSE IF headingMatch.found
        THEN cleanupWhitespace(decodeEntities(stripHtml(headingMatch.group)))
        ELSE <<>>

IsQuote(c) == c \in {"\"", "'"}

\* /<meta[^>]*name=["']description["'][^>]*>/gi .exec(html): the first
\* "<meta" that has name="description" (either quote on either side) before
\* its first ">"; the match runs to that ">".
matchMeta(html) ==
    LET lower == toLowerCase(html)
        open == <<"<","m","e","t","a">>
        nameEq == <<"n","a","m","e","=">>
        descr == <<"d","e","s","c","r","i","p","t","i","o","n">>
        gt(p) == indexOfFrom(html, <<">">>, p + Len(open))
        hasName(p) == \E k \in (p + Len(open))..(gt(p) - 18) :
                          /\ matchAt(lower, nameEq, k)
                          /\ IsQuote(html[k + 6])
                          /\ matchAt(lower, descr, k + 6)
                          /\ IsQuote(html[k + 18])
        starts == {p \in 0..(Len(html) - 1) :
                      matchAt(lower, open, p) /\ gt(p) # -1 /\ hasName(p)}
    IN  IF starts = {} THEN [found |-> FALSE, text |-> <<>>]
        ELSE LET p == CHOOSE i \in starts : \A j \in starts : i <= j
             IN  [found |-> TRUE, text |-> slice(html, p, gt(p) + 1)]

\* tagText.match(/content=(["'])([\s\S]*?)\1/i): the first "content="
\* followed by a quote that is closed by the same quote; group 2 runs to
\* the first closing quote.
matchContent(tagText) ==
    LET lower == toLowerCase(tagText)
        contentEq == <<"c","o","n","t","e","n","t","=">>
        closeQ(c) == indexOfFrom(tagText, <<tagText[c + 9]>>, c + 9)
        starts == {c \in 0..(Len(tagText) - 10) :
                      /\ matchAt(lower, contentEq, c)
                      /\ IsQuote(tagText[c + 9])
                      /\ closeQ(c) # -1}
    IN  IF starts = {} THEN [found |-> FALSE, group |-> <<>>]
        ELSE LET c == CHOOSE i \in starts : \A j \in starts : i <= j
             IN  [found |-> TRUE, group |-> slice(tagText, c + 9, closeQ(c))]

extractDescription(html) ==
    LET metaMatch == matchMeta(html)
        contentMatch == matchContent(metaMatch.text)
    IN  IF metaMatch.found /\ contentMatch.found
        THEN cleanupWhitespace(decodeEntities(contentMatch.group))
        ELSE <<>>

extractFirstParagraph(html) ==
    LET paragraphMatch == matchElement(html, <<"p">>)
    IN  IF paragraphMatch.found
        THEN cleanupWhitespace(decodeEntities(stripHtml(paragraphMatch.group)))
        ELSE <<>>

(***************************************************************************)
(* Listing markup and index patching                                       *)
(***************************************************************************)

startMarker ==
    <<"<","!","-","-"," ","B","L","O","G",":","S","T","A","R","T"," ","-","-",">">>

endMarker ==
    <<"<","!","-","-"," ","B","L","O","G",":","E","N","D"," ","-","-",">">>

DivOpen ==
    <<"<","d","i","v"," ","c","l","a","s","s","=","\"","g","r","i","d"," ","m","d",":","g","r",
      "i","d","-","c","o","l","s","-","3"," ","g","a","p","-","1","0","\"",">">>

Placeholder ==
    <<" "," ","<","p"," ","c","l","a","s","s","=","\"","t","e","x","t","-","g","r","a","y","-",
      "4","0","0","\"",">","N","o"," ","b","l","o","g"," ","p","o","s","t","s"," ","a","v","a",
      "i","l","a","b","l","e"," ","y","e","t","."," ","C","h","e","c","k"," ","b","a","c","k",
      " ","s","o","o","n","!","<","/","p",">">>

ArticleOpen ==
    <<" "," ","<","a","r","t","i","c","l","e"," ","c","l","a","s","s","=","\"","c","a","r","d",
      " ","s","h","a","d","o","w","-","l","g"," ","o","v","e","r","f","l","o","w","-","h","i",
      "d","d","e","n"," ","p","-","6"," ","t","r","a","n","s","i","t","i","o","n"," ","d","u",
      "r","a","t","i","o","n","-","3","0","0"," ","t","r","a","n","s","f","o","r","m"," ","h",
      "o","v","e","r",":","s","h","a","d","o","w","-","x","l"," ","h","o","v","e","r",":","-",
      "t","r","a","n","s","l","a","t","e","-","y","-","1","\"",">">>

HeadingOpen ==
    <<" "," "," "," ","<","h","3"," ","c","l","a","s","s","=","\"","t","e","x","t","-","x","l",
      " ","f","o","n","t","-","s","e","m","i","b","o","l","d"," ","m","b","-","3","\"",">">>

HeadingClose == <<"<","/","h","3",">">>

ParagraphOpen ==
    <<" "," "," "," ","<","p"," ","c","l","a","s","s","=","\"","m","b","-","4","\"",">">>

ParagraphClose == <<"<","/","p",">">>

LinkOpen ==
    <<" "," "," "," ","<","a"," ","h","r","e","f","=","\"">>

LinkClose ==
    <<"\""," ","c","l","a","s","s","=","\"","f","o","n","t","-","m","e","d","i","u","m","\"",
      ">","R","e","a","d"," ","M","o","r","e"," ","u2192","<","/","a",">">>

ArticleClose ==
    <<" "," ","<","/","a","r","t","i","c","l","e",">">>

DivClose == <<"<","/","d","i","v",">">>

RECURSIVE join(_, _)
\* Array.prototype.join(sep).
join(lines, sep) ==
    IF lines = <<>> THEN <<>>
    ELSE IF Len(lines) = 1 THEN lines[1]
    ELSE lines[1] \o sep \o join(Tail(lines), sep)

\* The five lines pushed for one post, and the empty line after them.
postLines(post, indent) ==
    << indent \o ArticleOpen,
       indent \o HeadingOpen \o escapeHtml(post.title) \o HeadingClose,
       indent \o ParagraphOpen \o escapeHtml(post.excerpt) \o ParagraphClose,
       indent \o LinkOpen \o post.href \o LinkClose,
       indent \o ArticleClose,
       <<>> >>

RECURSIVE allPostLines(_, _)
allPostLines(posts, indent) ==
    IF posts = <<>> THEN <<>>
    ELSE postLines(Head(posts), indent) \o allPostLines(Tail(posts), indent)

generateBlogMarkup(posts, indent) ==
    LET pushed == allPostLines(posts, indent)
        body == IF Len(posts) = 0 THEN <<indent \o Placeholder>>
                ELSE SubSeq(pushed, 1, Len(pushed) - 1)
    IN  join(<<indent \o DivOpen>> \o body \o <<indent \o DivClose>>, <<"\n">>)

\* The indentation of the start marker's line: the whitespace of the text
\* between the line's start and the marker, or that text itself when it
\* has no whitespace.
indentOf(indexHtml, startIndex) ==
    LET startLineStart == lastIndexOf(indexHtml, <<"\n">>, startIndex)
        startIndent == IF startLineStart = -1 THEN <<>>
                       ELSE slice(indexHtml, startLineStart + 1, startIndex)
        spaces == SelectSeq(startIndent, IsSpace)
    IN  IF spaces # <<>> THEN spaces ELSE startIndent

\* The document up to the start marker, the marker left out.
beforeWithoutMarker(indexHtml, startIndex) == slice(indexHtml, 0, startIndex)

\* const before: the document up to the end of the start marker.
beforeOf(indexHtml, startIndex) == slice(indexHtml, 0, startIndex + Len(startMarker))

\* The document from the start of the end marker, the marker included.
afterWithMarker(indexHtml, endIndex) == sliceFrom(indexHtml, endIndex)

\* const after: the document from the end of the end marker.
afterOf(indexHtml, endIndex) == sliceFrom(indexHtml, endIndex + Len(endMarker))

\* The body of updateIndex on the text read from index.html: whether the
\* markers were found in order, the markup generated and the text written.
updateIndex(indexHtml, posts) ==
    LET startIndex == indexOf(indexHtml, startMarker)
        endIndex == indexOf(indexHtml, endMarker)
    IN  IF startIndex = -1 \/ endIndex = -1 \/ endIndex <= startIndex
        THEN [ok |-> FALSE, generated |-> <<>>, replacement |-> indexHtml]
        ELSE LET indent == indentOf(indexHtml, startIndex)
                 generated == generateBlogMarkup(posts, indent)
             IN  [ok |-> TRUE, generated |-> generated,
                  replacement |-> beforeOf(indexHtml, startIndex) \o <<"\n">> \o generated
                                  \o <<"\n">> \o indent \o endMarker
                                  \o afterOf(indexHtml, endIndex)]

(***************************************************************************)
(* The build: state                                                        *)
(***************************************************************************)

VARIABLES
    pc,           \* where main is: "start", "readdir", "loop", "updateIndex", "done", "failed"
    error,        \* what made main fail: "none", "readdir", "markers"
    listable,     \* whether drafts/ can be listed
    entries,      \* the listing of drafts/, in readdir's order
    i,            \* the position of the for loop in entries (1-based)
    slugCounts,   \* main's slugCounts map
    posts,        \* main's posts array
    blogDirExists,\* whether blog/ exists
    blogFiles,    \* the published documents: path |-> content
    manifest,     \* blog/posts.json: <<>> when absent, else <<the posts serialized>>
    indexHtml,    \* the content of index.html
    generated,    \* the markup updateIndex generated last
    writes,       \* the paths written by fs.writeFile in the current run
    produced,     \* the posts pushed in the current run, each with its draft's position
    run,          \* the number of the current run of the build
    start,        \* the outputs as the current run found them
    prev,         \* the outputs as the previous run left them
    excerptArg,   \* the text passed to shortenExcerpt
    excerpt       \* the text shortenExcerpt returned

vars ==
    <<pc, error, listable, entries, i, slugCounts, posts, blogDirExists, blogFiles,
      manifest, indexHtml, generated, writes, produced, run, start, prev,
      excerptArg, excerpt>>

\* The greatest number of entries in drafts/.
MaxEntries == 3

\* The greatest number of runs of the build in a row.
MaxRuns == 2

\* The directory entries the listings are drawn from: the name, whether
\* the entry is a regular file, and the file's content.
DraftCatalogue ==
    <<
       [name |-> <<"a",".","h","t","m","l">>,
        isFile |-> TRUE,
        html |-> <<"<","t","i","t","l","e",">","B"," ","&","a","m","p",";"," ","<","i",">","C",
                   "<","/","i",">","<","/","t","i","t","l","e",">","<","p",">","x","<","/","p",
                   ">">>],
       [name |-> <<"A",".","H","T","M","L">>,
        isFile |-> TRUE,
        html |-> <<"<","h","1",">","A","<","/","h","1",">","<","m","e","t","a"," ","n","a","m",
                   "e","=","\"","d","e","s","c","r","i","p","t","i","o","n","\""," ","c","o",
                   "n","t","e","n","t","=","\"","'","q","'"," ","&","l","t",";","b","&","g","t",
                   ";","\"",">">>],
       [name |-> <<"a","-","1",".","h","t","m","l">>,
        isFile |-> TRUE,
        html |-> <<"<","p",">","p"," "," ","\"","q","\"","<","/","p",">">>],
       [name |-> <<"!",".","h","t","m","l">>,
        isFile |-> TRUE,
        html |-> <<"<","t","i","t","l","e",">","&","l","t",";","!","-","-"," ","B","L","O","G",
                   ":","E","N","D"," ","-","-","&","g","t",";","<","/","t","i","t","l","e",">">>],
       [name |-> <<"n",".","t","x","t">>,
        isFile |-> TRUE,
        html |-> <<"<","t","i","t","l","e",">","N","<","/","t","i","t","l","e",">">>],
       [name |-> <<"d",".","h","t","m","l">>,
        isFile |-> FALSE,
        html |-> <<>>]
    >>

\* The index documents the build is run on.
IndexCatalogue ==
    {
       <<"<","b","o","d","y",">","\n"," "," ","<","!","-","-"," ","B","L","O","G",":","S","T",
         "A","R","T"," ","-","-",">","\n"," "," ","o","l","d","\n"," "," ","<","!","-","-"," ",
         "B","L","O","G",":","E","N","D"," ","-","-",">","\n","<","/","b","o","d","y",">">>,
       <<"x","<","!","-","-"," ","B","L","O","G",":","S","T","A","R","T"," ","-","-",">","<",
         "!","-","-"," ","B","L","O","G",":","E","N","D"," ","-","-",">","y">>,
       <<"<","!","-","-"," ","B","L","O","G",":","S","T","A","R","T"," ","-","-",">","\n">>,
       <<"<","!","-","-"," ","B","L","O","G",":","E","N","D"," ","-","-",">">>,
       <<"<","!","-","-"," ","B","L","O","G",":","E","N","D"," ","-","-",">","\n","<","!","-",
         "-"," ","B","L","O","G",":","S","T","A","R","T"," ","-","-",">">>
    }

HtmlExt == <<".","h","t","m","l">>

ManifestPath == <<"b","l","o","g","/","p","o","s","t","s",".","j","s","o","n">>

IndexPath == <<"i","n","d","e","x",".","h","t","m","l">>

\* The path of a published document below the root: the post's href.
hrefOf(slug) == <<"b","l","o","g","/">> \o slug \o HtmlExt

\* Listings without repeated names, of at most n entries.
Listings(n) ==
    UNION {{l \in [1..k -> 1..Len(DraftCatalogue)] : \A a, b \in 1..k : a # b => l[a] # l[b]}
           : k \in 0..n}

outputs == [blogDirExists |-> blogDirExists, blogFiles |-> blogFiles,
            manifest |-> manifest, indexHtml |-> indexHtml]

NoOutputs == [blogDirExists |-> FALSE, blogFiles |-> <<>>, manifest |-> <<>>, indexHtml |-> <<>>]

\* const slugCounts = new Map().
newSlugCounts == <<>>

\* A build that starts from the posts of the manifest it finds.
mergedPosts == IF manifest = <<>> THEN <<>> ELSE manifest[1]

\* const posts = [].
newPosts == <<>>

Init ==
    /\ pc = "start"
    /\ error = "none"
    /\ \/ listable = TRUE /\ \E l \in Listings(MaxEntries) :
                                 entries = [k \in DOMAIN l |-> DraftCatalogue[l[k]]]
       \/ listable = FALSE /\ entries = <<>>
    /\ i = 1
    /\ slugCounts = <<>>
    /\ posts = <<>>
    /\ blogDirExists = FALSE
    /\ blogFiles = <<>>
    /\ manifest = <<>>
    /\ indexHtml \in IndexCatalogue
    /\ generated = <<>>
    /\ writes = {}
    /\ produced = {}
    /\ run = 1
    /\ start = [NoOutputs EXCEPT !.indexHtml = indexHtml]
    /\ prev = NoOutputs
    /\ excerptArg = <<>>
    /\ excerpt = <<>>

(***************************************************************************)
(* The build: main                                                         *)
(***************************************************************************)

\* entry.name.toLowerCase().endsWith('.html').
hasHtmlExt(name) == matchAt(toLowerCase(name), HtmlExt, Len(name) - Len(HtmlExt))

\* entry.name.replace(/\.html$/i, '') for a name that has the extension.
baseNameOf(name) == slice(name, 0, Len(name) - Len(HtmlExt))

\* The Post main builds from a slug and the draft's content.
postOf(slug, html) ==
    LET extracted == extractTitle(html)
        title == IF extracted # <<>> THEN extracted
                 ELSE toTitleCase(replaceChars(slug, "-" :> <<" ">>))
        description == extractDescription(html)
        paragraph == extractFirstParagraph(html)
        excerptSource == IF description # <<>> THEN description ELSE paragraph
    IN  [slug |-> slug,
         title |-> cleanupWhitespace(title),
         excerpt |-> shortenExcerpt(cleanupWhitespace(excerptSource), DefaultMaxLength),
         href |-> hrefOf(slug)]

\* The order of String.prototype.localeCompare on the characters of the
\* model: punctuation before digits before letters, a lower-case letter
\* before its upper-case form.
CollationOrder ==
    <<" ", "-", ",", ";", ":", "!", "'", "\"", "&", "#", "<", ">",
      "0", "1", "2", "3", "4", "5", "6", "7", "8", "9",
      "a", "A", "b", "B", "c", "C", "d", "D", "e", "E", "g", "G", "l", "L",
      "n", "N", "o", "O", "p", "P", "q", "Q", "s", "S", "t", "T", "x", "X">>

collationRank(c) ==
    IF c \in Range(CollationOrder)
    THEN CHOOSE k \in 1..Len(CollationOrder) : CollationOrder[k] = c
    ELSE Len(CollationOrder) + 1

RECURSIVE localeCompare(_, _)
\* a.localeCompare(b): negative, zero or positive.
localeCompare(a, b) ==
    IF a = <<>> /\ b = <<>> THEN 0
    ELSE IF a = <<>> THEN -1
    ELSE IF b = <<>> THEN 1
    ELSE IF collationRank(Head(a)) # collationRank(Head(b))
    THEN collationRank(Head(a)) - collationRank(Head(b))
    ELSE localeCompare(Tail(a), Tail(b))

RECURSIVE insertByTitle(_, _)
\* post inserted into a list sorted by title, after the posts that do not
\* compare greater: the sort is stable.
insertByTitle(sorted, post) ==
    IF sorted = <<>> THEN <<post>>
    ELSE IF localeCompare(Head(sorted).title, post.title) <= 0
    THEN <<Head(sorted)>> \o insertByTitle(Tail(sorted), post)
    ELSE <<post>> \o sorted

RECURSIVE sortByTitle(_)
\* posts.sort((a, b) => a.title.localeCompare(b.title)).
sortByTitle(list) ==
    IF list = <<>> THEN <<>>
    ELSE insertByTitle(sortByTitle(SubSeq(list, 1, Len(list) - 1)), list[Len(list)])

\* await fs.mkdir(blogDir, { recursive: true }).
Mkdir ==
    /\ pc = "start"
    /\ blogDirExists' = TRUE
    /\ pc' = "readdir"
    /\ UNCHANGED <<error, listable, entries, i, slugCounts, posts, blogFiles, manifest,
                   indexHtml, generated, writes, produced, run, start, prev,
                   excerptArg, excerpt>>

\* await fs.readdir(draftsDir) throws: main rejects and the process ends
\* with exit code 1.
ReaddirFails ==
    /\ pc = "readdir"
    /\ ~listable
    /\ pc' = "failed"
    /\ error' = "readdir"
    /\ UNCHANGED <<listable, entries, i, slugCounts, posts, blogDirExists, blogFiles,
                   manifest, indexHtml, generated, writes, produced, run, start, prev,
                   excerptArg, excerpt>>

\* await fs.readdir(draftsDir) returns the entries; the map and the array
\* are created.
Readdir ==
    /\ pc = "readdir"
    /\ listable
    /\ slugCounts' = newSlugCounts
    /\ posts' = newPosts
    /\ i' = 1
    /\ pc' = "loop"
    /\ UNCHANGED <<error, listable, entries, blogDirExists, blogFiles, manifest,
                   indexHtml, generated, writes, produced, run, start, prev,
                   excerptArg, excerpt>>

\* One iteration of the loop that ends in a continue.
SkipEntry ==
    /\ pc = "loop"
    /\ i <= Len(entries)
    /\ ~entries[i].isFile \/ ~hasHtmlExt(entries[i].name)
    /\ i' = i + 1
    /\ UNCHANGED <<pc, error, listable, entries, slugCounts, posts, blogDirExists,
                   blogFiles, manifest, indexHtml, generated, writes, produced, run,
                   start, prev, excerptArg, excerpt>>

\* One iteration of the loop that publishes a draft.
PublishEntry ==
    /\ pc = "loop"
    /\ i <= Len(entries)
    /\ entries[i].isFile
    /\ hasHtmlExt(entries[i].name)
    /\ LET html == entries[i].html
           baseSlug == slugify(baseNameOf(entries[i].name))
           unique == ensureUniqueSlug(baseSlug, slugCounts)
           post == postOf(unique.slug, html)
       IN  /\ slugCounts' = unique.map
           /\ blogFiles' = (hrefOf(unique.slug) :> html) @@ blogFiles
           /\ writes' = writes \cup {hrefOf(unique.slug)}
           /\ posts' = Append(posts, post)
           /\ produced' = produced \cup {[post |-> post, draft |-> i]}
    /\ i' = i + 1
    /\ UNCHANGED <<pc, error, listable, entries, blogDirExists, manifest, indexHtml,
                   generated, run, start, prev, excerptArg, excerpt>>

\* After the loop: the sort and the write of posts.json.  JSON.stringify
\* is one-to-one on post lists, so the file is modelled by the list.
WriteManifest ==
    /\ pc = "loop"
    /\ i > Len(entries)
    /\ posts' = sortByTitle(posts)
    /\ manifest' = <<posts'>>
    /\ writes' = writes \cup {ManifestPath}
    /\ pc' = "updateIndex"
    /\ UNCHANGED <<error, listable, entries, i, slugCounts, blogDirExists, blogFiles,
                   indexHtml, generated, produced, run, start, prev, excerptArg, excerpt>>

\* updateIndex throws 'Blog markers not found in index.html'.
UpdateIndexFails ==
    /\ pc = "updateIndex"
    /\ ~updateIndex(indexHtml, posts).ok
    /\ pc' = "failed"
    /\ error' = "markers"
    /\ UNCHANGED <<listable, entries, i, slugCounts, posts, blogDirExists, blogFiles,
                   manifest, indexHtml, generated, writes, produced, run, start, prev,
                   excerptArg, excerpt>>

\* updateIndex writes the patched document; main logs the count and ends.
UpdateIndex ==
    /\ pc = "updateIndex"
    /\ LET patch == updateIndex(indexHtml, posts)
       IN  /\ patch.ok
           /\ generated' = patch.generated
           /\ indexHtml' = patch.replacement
    /\ writes' = writes \cup {IndexPath}
    /\ pc' = "done"
    /\ UNCHANGED <<error, listable, entries, i, slugCounts, posts, blogDirExists,
                   blogFiles, manifest, produced, run, start, prev, excerptArg, excerpt>>

\* The build is run again on the same drafts: a new process, whose state
\* is the file system the last run left.
Rerun ==
    /\ pc \in {"done", "failed"}
    /\ run < MaxRuns
    /\ run' = run + 1
    /\ prev' = outputs
    /\ start' = outputs
    /\ pc' = "start"
    /\ error' = "none"
    /\ i' = 1
    /\ slugCounts' = newSlugCounts
    /\ posts' = newPosts
    /\ writes' = {}
    /\ produced' = {}
    /\ UNCHANGED <<listable, entries, blogDirExists, blogFiles, manifest, indexHtml,
                   generated, excerptArg, excerpt>>

Next ==
    \/ Mkdir
    \/ ReaddirFails
    \/ Readdir
    \/ SkipEntry
    \/ PublishEntry
    \/ WriteManifest
    \/ UpdateIndexFails
    \/ UpdateIndex
    \/ Rerun

Spec == Init /\ [][Next]_vars


(***************************************************************************)
(* Properties of the build                                                 *)
(***************************************************************************)

\* C1: the slugs of the Posts of one build are pairwise distinct,
\* whatever the file names, also when a base slug has the form of a
\* suffixed slug (base slugs a, a, a-1).
SlugsPairwiseDistinct ==
    \A a, b \in 1..Len(posts) : a # b => posts[a].slug # posts[b].slug

\* C2: when the build fails on the markers of the index document, it has
\* written nothing: no published document, no manifest, no index document.
MarkerFailureWritesNothing ==
    (pc = "failed" /\ error = "markers") =>
        /\ writes = {}
        /\ blogFiles = start.blogFiles
        /\ manifest = start.manifest
        /\ indexHtml = start.indexHtml

\* C4: after a second run on unchanged drafts the manifest and the
\* published documents are those the first run left.
RerunIsIdentical ==
    (run >= 2 /\ pc \in {"done", "failed"}) =>
        /\ manifest = prev.manifest
        /\ blogFiles = prev.blogFiles

\* A second run has ended after publishing at least two drafts, two of
\* them with the same base slug.
RerunIsIdenticalWitness ==
    /\ run = 2
    /\ pc = "done"
    /\ Len(posts) >= 2
    /\ \E sl \in DOMAIN slugCounts : slugCounts[sl] >= 2
    /\ manifest = <<posts>>

\* C5: when drafts/ cannot be listed the build has written nothing and
\* has not created the output directory.
ReaddirFailureWritesNothing ==
    (pc = "failed" /\ error = "readdir") =>
        /\ writes = {}
        /\ blogDirExists = start.blogDirExists
        /\ blogFiles = start.blogFiles
        /\ manifest = start.manifest
        /\ indexHtml = start.indexHtml

\* C6: after a successful build the file at every Post's href holds the
\* raw content of the draft that produced the Post, and no two Posts share
\* a published file.
PublishedOneToOne ==
    pc = "done" =>
        /\ \A pr \in produced :
               /\ pr.post.href \in DOMAIN blogFiles
               /\ blogFiles[pr.post.href] = entries[pr.draft].html
        /\ \A pr, qr \in produced : pr.draft # qr.draft => pr.post.href # qr.post.href
        /\ \A k \in 1..Len(manifest[1]) : \E pr \in produced : pr.post = manifest[1][k]


(***************************************************************************)
(* Index patching on its own: updateIndex applied, and applied again, to   *)
(* index documents put together from the markers and other text            *)
(***************************************************************************)

\* The greatest number of pieces of an index document.
MaxPieces == 4

\* What an index document is put together from.
Pieces == <<startMarker, endMarker, <<"\n">>, <<" ">>, <<"x">>>>

RECURSIVE concatPieces(_)
concatPieces(choice) ==
    IF choice = <<>> THEN <<>>
    ELSE Pieces[Head(choice)] \o concatPieces(Tail(choice))

PatchDocuments ==
    {concatPieces(choice) : choice \in UNION {[1..k -> 1..Len(Pieces)] : k \in 0..MaxPieces}}

\* The Post main builds from the k-th entry of the catalogue when no other
\* draft has its base slug.
catalogPost(k) ==
    postOf(slugify(baseNameOf(DraftCatalogue[k].name)), DraftCatalogue[k].html)

\* The post lists the documents are patched with, sorted as main sorts.
PatchPostLists ==
    { <<>>,
      sortByTitle(<<catalogPost(4)>>),
      sortByTitle(<<catalogPost(1), catalogPost(2)>>),
      sortByTitle(<<catalogPost(2), catalogPost(3), catalogPost(4)>>) }

InitPatch ==
    /\ pc = "updateIndex"
    /\ error = "none"
    /\ listable = TRUE
    /\ entries = <<>>
    /\ i = 1
    /\ slugCounts = <<>>
    /\ posts \in PatchPostLists
    /\ blogDirExists = TRUE
    /\ blogFiles = <<>>
    /\ manifest = <<posts>>
    /\ indexHtml \in PatchDocuments
    /\ generated = <<>>
    /\ writes = {}
    /\ produced = {}
    /\ run = 1
    /\ start = [blogDirExists |-> TRUE, blogFiles |-> <<>>, manifest |-> manifest,
                indexHtml |-> indexHtml]
    /\ prev = NoOutputs
    /\ excerptArg = <<>>
    /\ excerpt = <<>>

\* updateIndex is called again with the same posts on the document it
\* wrote.
Repatch ==
    /\ pc = "done"
    /\ run < MaxRuns
    /\ run' = run + 1
    /\ prev' = outputs
    /\ start' = outputs
    /\ writes' = {}
    /\ pc' = "updateIndex"
    /\ UNCHANGED <<error, listable, entries, i, slugCounts, posts, blogDirExists,
                   blogFiles, manifest, indexHtml, generated, produced, excerptArg,
                   excerpt>>

NextPatch ==
    \/ UpdateIndexFails
    \/ UpdateIndex
    \/ Repatch

SpecPatch == InitPatch /\ [][NextPatch]_vars

\* The text of a document before its start marker, and after its end
\* marker.
textBeforeStart(doc) == slice(doc, 0, indexOf(doc, startMarker))

textAfterEnd(doc) == sliceFrom(doc, indexOf(doc, endMarker) + Len(endMarker))

\* C3: when updateIndex succeeds, the text before the start marker and the
\* text after the end marker are the same in the document read and in the
\* document written.
OutsideMarkersPreserved ==
    pc = "done" =>
        /\ indexOf(indexHtml, startMarker) # -1
        /\ indexOf(indexHtml, endMarker) # -1
        /\ textBeforeStart(indexHtml) = textBeforeStart(start.indexHtml)
        /\ textAfterEnd(indexHtml) = textAfterEnd(start.indexHtml)

\* A document with text before the start marker and after the end marker
\* has been patched with a list of posts, and has changed.
OutsideMarkersPreservedWitness ==
    /\ pc = "done"
    /\ run = 1
    /\ posts # <<>>
    /\ textBeforeStart(start.indexHtml) # <<>>
    /\ textAfterEnd(start.indexHtml) # <<>>
    /\ indexHtml # start.indexHtml

CountChar(text, c) == Cardinality({k \in 1..Len(text) : text[k] = c})

References ==
    << <<<<"&","a","m","p",";">>, "&">>, <<<<"&","l","t",";">>, "<">>,
       <<<<"&","g","t",";">>, ">">>, <<<<"&","q","u","o","t",";">>, "\"">>,
       <<<<"&","#","3","9",";">>, "'">> >>

RECURSIVE unescapeFrom(_, _)
\* The text that the escaped text from index k on stands for: a character
\* reference read as its character, any other character as itself.
unescapeFrom(text, k) ==
    IF k >= Len(text) THEN <<>>
    ELSE LET refs == {r \in 1..Len(References) : matchAt(text, References[r][1], k)}
         IN  IF refs = {}
             THEN <<text[k + 1]>> \o unescapeFrom(text, k + 1)
             ELSE LET r == CHOOSE r \in refs : TRUE
                  IN  <<References[r][2]>> \o unescapeFrom(text, k + Len(References[r][1]))

\* Whether text holds no raw <, >, " or ', every & of it starts one of the
\* five references, and it stands for the text original.
IsEscapedFormOf(text, original) ==
    /\ \A k \in 1..Len(text) : text[k] \notin {"<", ">", "\"", "'"}
    /\ \A k \in 1..Len(text) :
           text[k] = "&" => \E r \in 1..Len(References) : matchAt(text, References[r][1], k - 1)
    /\ unescapeFrom(text, 0) = original

blankPost(post) == [post EXCEPT !.title = <<>>, !.excerpt = <<>>]

\* C9: the listing markup holds every title and excerpt in escaped form
\* only: the escaped form has no raw <, >, & or quote, the markup has as
\* many <, > and quotes as the markup of posts without text, and it holds
\* no marker.
ListingEscaped ==
    pc = "done" =>
        LET indent == indentOf(start.indexHtml, indexOf(start.indexHtml, startMarker))
            blank == generateBlogMarkup([k \in 1..Len(posts) |-> blankPost(posts[k])], indent)
        IN  /\ \A k \in 1..Len(posts) :
                   /\ IsEscapedFormOf(escapeHtml(posts[k].title), posts[k].title)
                   /\ IsEscapedFormOf(escapeHtml(posts[k].excerpt), posts[k].excerpt)
                   /\ indexOf(generated, HeadingOpen \o escapeHtml(posts[k].title)
                                         \o HeadingClose) # -1
                   /\ indexOf(generated, ParagraphOpen \o escapeHtml(posts[k].excerpt)
                                         \o ParagraphClose) # -1
            /\ \A c \in {"<", ">", "\"", "'"} : CountChar(generated, c) = CountChar(blank, c)
            /\ indexOf(generated, startMarker) = -1
            /\ indexOf(generated, endMarker) = -1

\* A listing has been generated for a post whose title is the end marker,
\* a post whose excerpt has an apostrophe and angle brackets, and a post
\* whose excerpt has a double quote.
ListingEscapedWitness ==
    /\ pc = "done"
    /\ \E k \in 1..Len(posts) : posts[k].title = endMarker
    /\ \E k \in 1..Len(posts) : {"'", "<", ">"} \subseteq Range(posts[k].excerpt)
    /\ \E k \in 1..Len(posts) : "\"" \in Range(posts[k].excerpt)

\* C10: the document updateIndex writes has the markers in order, so that
\* updateIndex succeeds on it, and patching it again with the same posts
\* writes the same document.
PatchIdempotent ==
    /\ pc = "done" => updateIndex(indexHtml, posts).ok
    /\ run >= 2 => pc # "failed"
    /\ (run >= 2 /\ pc = "done") => indexHtml = prev.indexHtml

\* A document has been patched twice with a list of posts; the first
\* patch changed it.
PatchIdempotentWitness ==
    /\ run = 2
    /\ pc = "done"
    /\ posts # <<>>
    /\ IndexPath \in writes
    /\ textBeforeStart(indexHtml) # <<>>
    /\ textAfterEnd(indexHtml) # <<>>


(***************************************************************************)
(* Excerpts on their own: shortenExcerpt applied to texts around the cap,  *)
(* as they are and after cleanupWhitespace, as main applies it             *)
(***************************************************************************)

\* The greatest length of the text around the cut.
MaxTail == 2

ExcerptAlphabet == {"a", " ", ",", "\""}

\* How a text starts.
ExcerptHeads == {<<>>, <<"a", " ">>, <<"\"">>, <<" ">>}

\* The lengths of the run of letters that follows the head.
FillLengths == {0, 194, 195, 196, 197, 198, 199}

\* The lengths of the run of letters that ends the text.
EndLengths == {0, 6}

fill(n) == [k \in 1..n |-> "a"]

ExcerptTexts ==
    {head \o fill(n) \o tail \o fill(m) :
        head \in ExcerptHeads, n \in FillLengths,
        tail \in UNION {[1..k -> ExcerptAlphabet] : k \in 0..MaxTail}, m \in EndLengths}

InitExcerpt ==
    /\ pc = "excerpt"
    /\ error = "none"
    /\ listable = TRUE
    /\ entries = <<>>
    /\ i = 1
    /\ slugCounts = <<>>
    /\ posts = <<>>
    /\ blogDirExists = FALSE
    /\ blogFiles = <<>>
    /\ manifest = <<>>
    /\ indexHtml = <<>>
    /\ generated = <<>>
    /\ writes = {}
    /\ produced = {}
    /\ run = 1
    /\ start = NoOutputs
    /\ prev = NoOutputs
    /\ excerptArg \in ExcerptTexts
    /\ excerpt = <<>>

\* cleanupWhitespace(excerptSource), the argument main passes.
CleanupExcerpt ==
    /\ pc = "excerpt"
    /\ excerptArg' = cleanupWhitespace(excerptArg)
    /\ pc' = "clean"
    /\ UNCHANGED <<error, listable, entries, i, slugCounts, posts, blogDirExists,
                   blogFiles, manifest, indexHtml, generated, writes, produced, run,
                   start, prev, excerpt>>

\* shortenExcerpt(text) with the default maxLength.
ShortenExcerpt ==
    /\ pc \in {"excerpt", "clean"}
    /\ excerpt' = shortenExcerpt(excerptArg, DefaultMaxLength)
    /\ pc' = "shortened"
    /\ UNCHANGED <<error, listable, entries, i, slugCounts, posts, blogDirExists,
                   blogFiles, manifest, indexHtml, generated, writes, produced, run,
                   start, prev, excerptArg>>

NextExcerpt ==
    \/ CleanupExcerpt
    \/ ShortenExcerpt

SpecExcerpt == InitExcerpt /\ [][NextExcerpt]_vars

\* C7: an excerpt has at most 200 characters, the ellipsis counted, and a
\* text of at most 200 characters is returned as it is.
ExcerptWithinCap ==
    pc = "shortened" =>
        /\ Len(excerpt) <= 200
        /\ Len(excerptArg) <= 200 => excerpt = excerptArg

\* A text longer than the cap has been cut to exactly the cap.
ExcerptWithinCapWitness ==
    /\ pc = "shortened"
    /\ Len(excerptArg) > 200
    /\ Len(excerpt) = 200
    /\ excerpt[200] = Ellipsis

\* A character that belongs to a word: neither whitespace nor one of the
\* punctuation and quote characters that shortenExcerpt strips.
IsWordPart(c) == ~IsSpace(c) /\ c \notin TrailingPunctuation \cup TrailingQuotes

\* C8: when a whitespace-normalized text longer than 200 characters is
\* truncated, the text kept before the ellipsis is a prefix of the input
\* that ends at the end of a word: the input does not go on with a
\* character of the same word.
TruncationKeepsWholeWords ==
    (pc = "shortened" /\ Len(excerptArg) > 200 /\ excerptArg = cleanupWhitespace(excerptArg)) =>
        LET kept == SubSeq(excerpt, 1, Len(excerpt) - 1)
        IN  /\ excerpt[Len(excerpt)] = Ellipsis
            /\ kept = SubSeq(excerptArg, 1, Len(kept))
            /\ kept = <<>> \/ ~IsWordPart(excerptArg[Len(kept) + 1])

====
